---- MODULE Spec2Model ----
(***************************************************************************)
(* PriceTracker: the price-extraction cascade (scraper.py), the per-site   *)
(* dispatcher (UnifiedScraper) and the scraping cycle (main.py,            *)
(* storage.py).                                                            *)
(*                                                                         *)
(* Text is a sequence of one-character tokens.  "nbsp" stands for the      *)
(* single character U+00A0, which Python's \s and str.strip() treat as     *)
(* whitespace but str.replace(' ', '') does not remove.                    *)
(*                                                                         *)
(* A float is a record [neg, whole, frac]: the sign, the integer part and  *)
(* the fractional digits without trailing zeros.  NoValue (Python None)    *)
(* is the record with whole = -1.                                          *)
(***************************************************************************)
EXTENDS Integers, Sequences, FiniteSets, TLC

(***************************************************************************)
(* Characters and strings                                                  *)
(***************************************************************************)
Digits == {"0", "1", "2", "3", "4", "5", "6", "7", "8", "9"}

DigitVal == [c \in Digits |->
               CASE c = "0" -> 0 [] c = "1" -> 1 [] c = "2" -> 2 [] c = "3" -> 3
                 [] c = "4" -> 4 [] c = "5" -> 5 [] c = "6" -> 6 [] c = "7" -> 7
                 [] c = "8" -> 8 [] c = "9" -> 9]

IsDigit(c) == c \in Digits

IsSpace(c) == c \in {" ", "nbsp"}

Min2(a, b) == IF a <= b THEN a ELSE b

\* s[from..] as a sequence (from is 1-based; empty when from > Len(s))
Tail_from(s, from) == IF from > Len(s) THEN <<>> ELSE SubSeq(s, from, Len(s))

\* str.strip(): drop leading and trailing whitespace
RECURSIVE LStrip(_)
LStrip(s) == IF s # <<>> /\ IsSpace(Head(s)) THEN LStrip(Tail(s)) ELSE s

RECURSIVE RStrip(_)
RStrip(s) == IF s # <<>> /\ IsSpace(s[Len(s)])
               THEN RStrip(SubSeq(s, 1, Len(s) - 1)) ELSE s

Strip(s) == RStrip(LStrip(s))

\* str.replace(c, ''): remove every occurrence of the character c
Remove(s, c) == SelectSeq(s, LAMBDA x : x # c)

\* str.replace(c, d): substitute d for every occurrence of c
Replace(s, c, d) == [i \in 1..Len(s) |-> IF s[i] = c THEN d ELSE s[i]]

\* c in s
Contains(s, c) == \E i \in 1..Len(s) : s[i] = c

\* str.rfind(c): 0-based position of the last c, -1 when absent
RFind(s, c) == IF Contains(s, c)
                 THEN (CHOOSE i \in 1..Len(s) :
                         s[i] = c /\ \A j \in (i+1)..Len(s) : s[j] # c) - 1
                 ELSE -1

\* str.index(c): 0-based position of the first c (only used when c in s)
Index(s, c) == (CHOOSE i \in 1..Len(s) :
                  s[i] = c /\ \A j \in 1..(i-1) : s[j] # c) - 1

\* number of consecutive digits of s from position i on
RECURSIVE DigitRun(_, _)
DigitRun(s, i) == IF i <= Len(s) /\ IsDigit(s[i]) THEN 1 + DigitRun(s, i + 1) ELSE 0

\* number of consecutive whitespace characters of s from position i on
RECURSIVE SpaceRun(_, _)
SpaceRun(s, i) == IF i <= Len(s) /\ IsSpace(s[i]) THEN 1 + SpaceRun(s, i + 1) ELSE 0

\* case-insensitive "kr" at position i
KrAt(s, i) == i + 1 <= Len(s) /\ s[i] \in {"k", "K"} /\ s[i+1] \in {"r", "R"}

(***************************************************************************)
(* Floats                                                                  *)
(***************************************************************************)
NoValue == [neg |-> FALSE, whole |-> -1, frac |-> <<>>]

IsValue(p) == p.whole >= 0

\* Integer parts are clamped at WholeClamp, far above every range any caller
\* accepts, so that long digit runs stay inside the integers TLC computes.
WholeClamp == 100000000

RECURSIVE DigitsToNat(_)
DigitsToNat(s) ==
  IF s = <<>> THEN 0
  ELSE LET r == DigitsToNat(SubSeq(s, 1, Len(s) - 1))
       IN  IF r >= WholeClamp THEN WholeClamp ELSE 10 * r + DigitVal[s[Len(s)]]

RECURSIVE DropTrailingZeros(_)
DropTrailingZeros(f) == IF f # <<>> /\ f[Len(f)] = 0
                          THEN DropTrailingZeros(SubSeq(f, 1, Len(f) - 1)) ELSE f

MkFloat(neg, whole, frac) ==
  LET f == DropTrailingZeros(frac)
  IN  [neg |-> neg /\ ~(whole = 0 /\ f = <<>>), whole |-> whole, frac |-> f]

\* the float of the integer n >= 0
Num(n) == [neg |-> FALSE, whole |-> n, frac |-> <<>>]

\* float() of a stripped text without its sign
ParseUnsigned(neg, body) ==
  LET dots == Cardinality({i \in 1..Len(body) : body[i] = "."})
      dot  == IF dots = 1 THEN Index(body, ".") + 1 ELSE Len(body) + 1
      fp   == Tail_from(body, dot + 1)
  IN  IF /\ \A i \in 1..Len(body) : IsDigit(body[i]) \/ body[i] = "."
         /\ dots <= 1
         /\ \E i \in 1..Len(body) : IsDigit(body[i])
        THEN MkFloat(neg, DigitsToNat(SubSeq(body, 1, dot - 1)),
                     [i \in 1..Len(fp) |-> DigitVal[fp[i]]])
        ELSE NoValue

ParseStripped(t) ==
  IF t # <<>> /\ Head(t) = "-" THEN ParseUnsigned(TRUE, Tail(t))
                               ELSE ParseUnsigned(FALSE, t)

\* float(text): optional surrounding whitespace, optional '-', digits with
\* at most one '.', at least one digit; anything else raises ValueError,
\* which every caller turns into NoValue.
ParseFloat(text) == ParseStripped(Strip(text))

\* lexicographic comparison of fractional digit strings (zero padded)
RECURSIVE FracLe(_, _)
FracLe(f, g) ==
  IF f = <<>> THEN TRUE
  ELSE IF g = <<>> THEN FALSE
  ELSE IF Head(f) # Head(g) THEN Head(f) < Head(g)
  ELSE FracLe(Tail(f), Tail(g))

MagLe(a, b) == \/ a.whole < b.whole
               \/ a.whole = b.whole /\ FracLe(a.frac, b.frac)

\* a <= b on floats (both values)
Le(a, b) == IF a.neg /\ ~b.neg THEN TRUE
            ELSE IF ~a.neg /\ b.neg THEN FALSE
            ELSE IF a.neg THEN MagLe(b, a)
            ELSE MagLe(a, b)

Lt(a, b) == Le(a, b) /\ a # b

\* min() and max() of a non-empty set of floats
MinOf(S) == CHOOSE m \in S : \A x \in S : Le(m, x)

MaxOf(S) == CHOOSE m \in S : \A x \in S : Le(x, m)

\* the set of elements of a sequence
Range(s) == {s[i] : i \in 1..Len(s)}

(***************************************************************************)
(* Number normalizers                                                      *)
(***************************************************************************)
PrisjaktLow == 0
PrisjaktHigh == 10000000
TextLow == 100
TextHigh == 100000

\* the range test falling back to a number
AcceptOrZero(price, low, high) ==
  IF IsValue(price) /\ Le(Num(low), price) /\ Le(price, Num(high))
    THEN price ELSE Num(0)

\* the range test that ends both normalizers
Accept(price, low, high) ==
  IF IsValue(price) /\ Le(Num(low), price) /\ Le(price, Num(high))
    THEN price ELSE NoValue

\* PrisjaktScraper._parse_price_text: re.sub, strip and removal of spaces
PrisjaktCleaned(price_text) ==
  Remove(Strip(SelectSeq(price_text,
                 LAMBDA c : IsDigit(c) \/ c \in {",", "."} \/ IsSpace(c))), " ")

\* the separator rules with a comma followed by three characters read as a
\* decimal point
PrisjaktSeparatorsLongDecimal(cleaned) ==
  IF Contains(cleaned, ",") /\ Contains(cleaned, ".")
    THEN IF RFind(cleaned, ",") > RFind(cleaned, ".")
           THEN Replace(Remove(cleaned, "."), ",", ".")
           ELSE Remove(cleaned, ",")
  ELSE IF Contains(cleaned, ",")
    THEN IF Len(cleaned) - RFind(cleaned, ",") <= 4
           THEN Replace(cleaned, ",", ".")
           ELSE Remove(cleaned, ",")
  ELSE cleaned

\* PrisjaktScraper._parse_price_text: the separator rules
PrisjaktSeparators(cleaned) ==
  IF Contains(cleaned, ",") /\ Contains(cleaned, ".")
    THEN IF RFind(cleaned, ",") > RFind(cleaned, ".")
           THEN Replace(Remove(cleaned, "."), ",", ".")
           ELSE Remove(cleaned, ",")
  ELSE IF Contains(cleaned, ",")
    THEN IF Len(cleaned) - RFind(cleaned, ",") <= 3
           THEN Replace(cleaned, ",", ".")
           ELSE Remove(cleaned, ",")
  ELSE cleaned

\* PrisjaktScraper._parse_price_text
Prisjakt_parse_price_text(price_text) ==
  Accept(ParseFloat(PrisjaktSeparators(PrisjaktCleaned(price_text))),
         PrisjaktLow, PrisjaktHigh)

\* BlocketScraper._parse_price_text: re.sub and strip
BlocketCleaned(price_text) ==
  Strip(SelectSeq(price_text,
          LAMBDA c : IsDigit(c) \/ c \in {",", ".", "-"} \/ IsSpace(c)))

\* BlocketScraper._parse_price_text: the separator rules
BlocketSeparators(cleaned) ==
  IF Contains(cleaned, " ")
    THEN Remove(cleaned, " ")
  ELSE IF Contains(cleaned, ",") /\ Contains(cleaned, ".")
    THEN IF Index(cleaned, ",") < Index(cleaned, ".")
           THEN Remove(cleaned, ",")
           ELSE Replace(Remove(cleaned, "."), ",", ".")
  ELSE IF Contains(cleaned, ",")
    THEN IF Len(cleaned) - RFind(cleaned, ",") <= 3
           THEN Replace(cleaned, ",", ".")
           ELSE Remove(cleaned, ",")
  ELSE cleaned

\* BlocketScraper._parse_price_text from "if not cleaned_text" on
BlocketParseCleaned(cleaned) ==
  IF cleaned = <<>> THEN NoValue
  ELSE Accept(ParseFloat(BlocketSeparators(cleaned)), TextLow, TextHigh)

\* BlocketScraper._parse_price_text
Blocket_parse_price_text(price_text) ==
  IF price_text = <<>> THEN NoValue
  ELSE BlocketParseCleaned(BlocketCleaned(price_text))

(***************************************************************************)
(* Currency patterns (re.findall / re.finditer with re.IGNORECASE)         *)
(*                                                                         *)
(* A pattern is [rev, grouped, lo, hi, sep]:                               *)
(*   captured number: a run of lo..hi digits (hi = -1: no upper limit),    *)
(*     followed, when grouped, by one or more groups "sep ddd", where sep  *)
(*     is "ws" (the class \s), "," or ".";                                 *)
(*   rev = FALSE: number \s* kr        rev = TRUE: kr \s* number           *)
(* Every quantifier is greedy.  In each of these patterns a shorter        *)
(* alternative leaves a digit, a separator or whitespace where the next    *)
(* element needs something else, so backtracking never finds a match the   *)
(* greedy choice misses.                                                   *)
(***************************************************************************)
Pat(rev, grouped, lo, hi, sep) ==
  [rev |-> rev, grouped |-> grouped, lo |-> lo, hi |-> hi, sep |-> sep]

IsSep(sep, c) == IF sep = "ws" THEN IsSpace(c) ELSE c = sep

\* number of consecutive groups "sep ddd" starting at position j
RECURSIVE Groups(_, _, _)
Groups(s, j, sep) ==
  IF /\ j + 3 <= Len(s)
     /\ IsSep(sep, s[j])
     /\ IsDigit(s[j+1]) /\ IsDigit(s[j+2]) /\ IsDigit(s[j+3])
    THEN 1 + Groups(s, j + 4, sep)
    ELSE 0

\* length of the captured number at position i, 0 when there is none
GroupLen(p, s, i) ==
  LET d == DigitRun(s, i)
  IN  IF d < p.lo \/ (p.hi >= 0 /\ d > p.hi) THEN 0
      ELSE IF p.grouped
        THEN LET k == Groups(s, i + d, p.sep)
             IN  IF k = 0 THEN 0 ELSE d + 4 * k
        ELSE d

\* number \s* kr at position i, the captured number being n long
MatchForward(s, i, n) ==
  IF n > 0 /\ KrAt(s, i + n + SpaceRun(s, i + n))
    THEN <<i, i + n - 1, i + n + SpaceRun(s, i + n) + 2>>
    ELSE <<0, 0, 0>>

\* kr \s* number, the number starting at position g and being n long
MatchReversed(g, n) ==
  IF n = 0 THEN <<0, 0, 0>> ELSE <<g, g + n - 1, g + n>>

\* <<first, last, next>>: the captured number s[first..last] of the match
\* starting at position i and the position after the match; <<0, 0, 0>>
\* when the pattern does not match at i
MatchAt(p, s, i) ==
  IF p.rev
    THEN IF KrAt(s, i)
           THEN MatchReversed(i + 2 + SpaceRun(s, i + 2),
                              GroupLen(p, s, i + 2 + SpaceRun(s, i + 2)))
           ELSE <<0, 0, 0>>
    ELSE MatchForward(s, i, GroupLen(p, s, i))

\* the captured numbers of all non-overlapping matches, left to right
RECURSIVE FindAll(_, _, _)
FindNext(p, s, i, m) ==
  IF m[3] = 0 THEN FindAll(p, s, i + 1)
  ELSE <<SubSeq(s, m[1], m[2])>> \o FindAll(p, s, m[3])

FindAll(p, s, i) ==
  IF i > Len(s) THEN <<>> ELSE FindNext(p, s, i, MatchAt(p, s, i))

RECURSIVE Flatten(_)
Flatten(ss) == IF ss = <<>> THEN <<>> ELSE Head(ss) \o Flatten(Tail(ss))

\* PrisjaktScraper._extract_price_from_text: price_patterns
Prisjakt_price_patterns ==
  << Pat(FALSE, TRUE, 1, 3, "ws"),
     Pat(FALSE, TRUE, 1, 3, ","),
     Pat(FALSE, FALSE, 4, 6, ""),
     Pat(FALSE, FALSE, 1, 3, "") >>

\* BlocketScraper._extract_prices_from_text: price_patterns
Blocket_price_patterns ==
  << Pat(FALSE, TRUE, 1, 3, "ws"),
     Pat(FALSE, FALSE, 1, -1, ""),
     Pat(TRUE, TRUE, 1, 3, "ws"),
     Pat(TRUE, FALSE, 1, -1, ""),
     Pat(FALSE, TRUE, 1, -1, ","),
     Pat(FALSE, TRUE, 1, -1, "."),
     Pat(FALSE, FALSE, 4, 6, "") >>

\* the matches of every pattern, pattern by pattern
AllMatches(patterns, text) ==
  Flatten([k \in 1..Len(patterns) |-> FindAll(patterns[k], text, 1)])

\* PrisjaktScraper._extract_price_from_text: the value of one match
Prisjakt_match_value(match) ==
  Accept(ParseFloat(Remove(Remove(match, " "), ",")), TextLow, TextHigh)

\* the values appended: those of the parsed texts that are not None, in order
AcceptedValues(parsed) == SelectSeq(parsed, IsValue)

\* found_prices of PrisjaktScraper._extract_price_from_text, in append order
Prisjakt_match_values(matches) ==
  [k \in 1..Len(matches) |-> Prisjakt_match_value(matches[k])]

Prisjakt_found_prices(page_text) ==
  AcceptedValues(Prisjakt_match_values(
                   AllMatches(Prisjakt_price_patterns, page_text)))

PreferAbove == 1000

\* the selection preferring the prices below 1000
Prisjakt_select_small_first(found_prices) ==
  LET small == SelectSeq(found_prices, LAMBDA v : Lt(v, Num(1000)))
  IN  IF found_prices # <<>>
        THEN IF small # <<>> THEN MaxOf(Range(small))
                             ELSE MaxOf(Range(found_prices))
        ELSE NoValue

\* the selection taking the lowest price found
Prisjakt_select_lowest(found_prices) ==
  IF found_prices # <<>> THEN MinOf(Range(found_prices)) ELSE NoValue

\* PrisjaktScraper._extract_price_from_text: the selection among found_prices
Prisjakt_select_price(found_prices) ==
  LET valid_prices == SelectSeq(found_prices, LAMBDA v : Le(Num(PreferAbove), v))
  IN  IF found_prices # <<>>
        THEN IF valid_prices # <<>> THEN MaxOf(Range(valid_prices))
                                    ELSE MaxOf(Range(found_prices))
        ELSE NoValue

\* PrisjaktScraper._extract_price_from_text
Prisjakt_extract_price_from_text(page_text) ==
  Prisjakt_select_price(Prisjakt_found_prices(page_text))

\* self._parse_price_text of each text, in order
Blocket_parsed(texts) ==
  [k \in 1..Len(texts) |-> Blocket_parse_price_text(texts[k])]

\* BlocketScraper._extract_prices_from_text
Blocket_extract_prices_from_text(text_content) ==
  AcceptedValues(Blocket_parsed(AllMatches(Blocket_price_patterns, text_content)))

(***************************************************************************)
(* Pages, targets and records                                              *)
(*                                                                         *)
(* A page (the BeautifulSoup of one response) is [title, sel, text]:       *)
(*   title: "none" (no title element), "nostring" (a title element whose   *)
(*          .string is None), "robot" or "text";                           *)
(*   sel:   for each selector that matches, the get_text(strip=True) of    *)
(*          the matched elements in document order;                        *)
(*   text:  soup.get_text().                                               *)
(* A record leaves out timestamp and url, which no decision reads.         *)
(***************************************************************************)
Elements(page, selector) ==
  IF selector \in DOMAIN page.sel THEN page.sel[selector] ELSE <<>>

NoRecord == [product_name |-> <<>>, current_price |-> NoValue,
             previous_price |-> NoValue, price_dropped |-> FALSE,
             target_price_reached |-> FALSE]

IsRecord(r) == IsValue(r.current_price)

\* PriceRecord(product_name=..., current_price=..., target_price_reached=...)
PriceRecord(product, price) ==
  [product_name |-> product.name, current_price |-> price,
   previous_price |-> NoValue, price_dropped |-> FALSE,
   target_price_reached |-> IsValue(product.target_price)
                              /\ Le(price, product.target_price)]

(***************************************************************************)
(* Single-item strategy: PrisjaktScraper                                   *)
(***************************************************************************)
TextSearch == "text_search_kr"

alternative_selectors ==
  << "span:contains('kr')", ".price-box .price", ".lowest-price",
     "strong:contains('kr')", ".price", "[data-testid*='price']",
     ".price-value", ".current-price", ".product-price", TextSearch >>

\* the loop of PrisjaktScraper._extract_price over the matched elements
RECURSIVE FirstParsed(_)
\* the test "if price:" in place of "if price is not None:"
FirstTruthyOr(price, rest) ==
  IF IsValue(price) /\ price # Num(0) THEN price ELSE FirstParsed(rest)

FirstParsedOr(price, rest) == IF IsValue(price) THEN price ELSE FirstParsed(rest)

\* the extractor reading only the first matched element
FirstElementParsed(elements) ==
  IF elements = <<>> THEN NoValue
  ELSE Prisjakt_parse_price_text(Head(elements))

FirstParsed(elements) ==
  IF elements = <<>> THEN NoValue
  ELSE FirstParsedOr(Prisjakt_parse_price_text(Head(elements)), Tail(elements))

\* PrisjaktScraper._extract_price
Prisjakt_extract_price(page, selector) == FirstParsed(Elements(page, selector))

\* one stage of the cascade: the branch on "text_search_kr"
StageValue(page, selector) ==
  IF selector = TextSearch
    THEN Prisjakt_extract_price_from_text(page.text)
    ELSE Prisjakt_extract_price(page, selector)

\* a cascade result with one more selector tried before it
After(selector, found) ==
  [price |-> found.price, tried |-> <<selector>> \o found.tried]

\* the loop over alternative_selectors, leaving at the first value;
\* tried lists the selectors attempted, in order
RECURSIVE TryAlternatives(_, _)
\* the loop without its break: every alternative runs, the last one decides
TryAlternativeNoBreak(page, selectors, price) ==
  IF Tail(selectors) = <<>>
    THEN [price |-> price, tried |-> <<Head(selectors)>>]
    ELSE After(Head(selectors), TryAlternatives(page, Tail(selectors)))

TryAlternative(page, selectors, price) ==
  IF IsValue(price)
    THEN [price |-> price, tried |-> <<Head(selectors)>>]
    ELSE After(Head(selectors), TryAlternatives(page, Tail(selectors)))

TryAlternatives(page, selectors) ==
  IF selectors = <<>> THEN [price |-> NoValue, tried |-> <<>>]
  ELSE TryAlternative(page, selectors, StageValue(page, Head(selectors)))

\* if price is None: ... the alternative selectors
CascadeAfter(page, price_selector, price) ==
  IF IsValue(price)
    THEN [price |-> price, tried |-> <<price_selector>>]
    ELSE After(price_selector, TryAlternatives(page, alternative_selectors))

\* the extraction part of PrisjaktScraper.scrape_product_price for one page
Prisjakt_cascade(page, price_selector) ==
  CascadeAfter(page, price_selector, StageValue(page, price_selector))

(***************************************************************************)
(* Listing strategy: BlocketScraper                                        *)
(***************************************************************************)
price_selectors ==
  << ".item-price", ".search-item__price", ".price-container",
     "[data-testid=\"price\"]", ".amount", ".price", ".listing-price",
     ".ad-price", "[class*=\"price\"]", "[class*=\"Price\"]",
     ".SearchItem-price", ".listitem-price", ".price-value", ".ad-item-price" >>

\* sorted(list(S)) for a set of floats
RECURSIVE SortedSeq(_)
SortedFrom(m, S) == <<m>> \o SortedSeq(S \ {m})

SortedSeq(S) == IF S = {} THEN <<>> ELSE SortedFrom(MinOf(S), S)

\* the prices the selector loops of _extract_search_result_prices append
Blocket_selector_prices(page) ==
  AcceptedValues(Blocket_parsed(Flatten([k \in 1..Len(price_selectors) |->
                                          Elements(page, price_selectors[k])])))

\* the text patterns run whatever the selectors produced
PlusFromText(prices, page) ==
  prices \o Blocket_extract_prices_from_text(page.text)

\* if not prices: prices = self._extract_prices_from_text(soup)
OrFromText(prices, page) ==
  IF prices = <<>> THEN Blocket_extract_prices_from_text(page.text) ELSE prices

\* BlocketScraper._extract_search_result_prices
Blocket_extract_search_result_prices(page) ==
  SortedSeq(Range(OrFromText(Blocket_selector_prices(page), page)))

\* the range test without its lower bound
InRangeIgnoringMin(price, min_price, max_price) ==
  ~(IsValue(max_price) /\ Lt(max_price, price))

\* BlocketScraper._is_price_in_range
Blocket_is_price_in_range(price, min_price, max_price) ==
  IF IsValue(min_price) /\ Lt(price, min_price) THEN FALSE
  ELSE IF IsValue(max_price) /\ Lt(max_price, price) THEN FALSE
  ELSE TRUE

\* filtered_prices of BlocketScraper.scrape_product_price
Blocket_filtered_prices(prices, product) ==
  SelectSeq(prices, LAMBDA price :
    Blocket_is_price_in_range(price, product.min_price, product.max_price))

(***************************************************************************)
(* The pages the two sites may serve                                       *)
(***************************************************************************)
\* the configured selector .price-large matches an element reading 3 997 kr
PagePrimary ==
  [title |-> "text",
   sel |-> 
     (".price-large" :> <<<<"3", " ", "9", "9", "7", " ", "k", "r">>>>),
   text |-> <<"3", " ", "9", "9", "7", " ", "k", "r">>]

\* no .price-large; .price matches an empty element, one without digits and 1 299 kr
PageFallback ==
  [title |-> "text",
   sel |-> 
     (".price" :> <<<<>>, <<"a", "b", "c">>, <<"1", " ", "2", "9", "9", " ", "k", "r">>>>) @@
     ("[data-testid*='price']" :> <<<<"1", " ", "3", "5", "0", " ", "k", "r">>>>),
   text |-> <<"a", "b", "c", " ", "1", " ", "2", "9", "9", " ", "k", "r", " ", "1", " ", "3", "5", "0", " ", "k", "r">>]

\* no structural selector matches; the only price text is Pris: 7 990 kr
PageTextOnly ==
  [title |-> "text",
   sel |-> <<>>,
   text |-> <<"P", "r", "i", "s", ":", " ", "7", " ", "9", "9", "0", " ", "k", "r">>]

\* no price anywhere
PageNoPrice ==
  [title |-> "none",
   sel |-> 
     (".price-large" :> <<<<"a", "b", "c">>>>),
   text |-> <<"a", "b", "c">>]

\* a span reading 0 kr precedes a .price element reading 50
PageZero ==
  [title |-> "text",
   sel |-> 
     (".price-large" :> <<<<"-">>>>) @@
     ("span:contains('kr')" :> <<<<"0", " ", "k", "r">>>>) @@
     (".price" :> <<<<"5", "0">>>>),
   text |-> <<"-", " ", "0", " ", "k", "r", " ", "5", "0">>]

\* the only price is above every accepted range
PageTooBig ==
  [title |-> "text",
   sel |-> 
     (".price-large" :> <<<<"2", "0", " ", "0", "0", "0", " ", "0", "0", "0", " ", "k", "r">>>>),
   text |-> <<"2", "0", " ", "0", "0", "0", " ", "0", "0", "0", " ", "k", "r">>]

\* four listings; .item-price elements are matched again by [class*="price"]
ListingFour ==
  [title |-> "text",
   sel |-> 
     (".item-price" :> <<<<"4", "5", "0", " ", "k", "r">>, <<"9", "9", "9", " ", "k", "r">>, <<"1", " ", "5", "0", "0", " ", "k", "r">>, <<"2", " ", "2", "0", "0", " ", "k", "r">>>>) @@
     ("[class*=\"price\"]" :> <<<<"4", "5", "0", " ", "k", "r">>, <<"9", "9", "9", " ", "k", "r">>, <<"1", " ", "5", "0", "0", " ", "k", "r">>, <<"2", " ", "2", "0", "0", " ", "k", "r">>>>),
   text |-> <<"4", "5", "0", " ", "k", "r", " ", "9", "9", "9", " ", "k", "r", " ", "1", " ", "5", "0", "0", " ", "k", "r", " ", "2", " ", "2", "0", "0", " ", "k", "r">>]

\* one listing at 450 and one below the accepted range
ListingCheap ==
  [title |-> "text",
   sel |-> 
     (".price" :> <<<<"4", "5", "0", " ", "k", "r">>, <<"P", "r", "i", "s">>, <<"5", "0", " ", "k", "r">>>>) @@
     ("[class*=\"price\"]" :> <<<<"4", "5", "0", " ", "k", "r">>, <<"P", "r", "i", "s">>, <<"5", "0", " ", "k", "r">>>>),
   text |-> <<"4", "5", "0", " ", "k", "r", " ", "P", "r", "i", "s", " ", "5", "0", " ", "k", "r">>]

\* no listing selector matches; prices only in the page text
ListingText ==
  [title |-> "none",
   sel |-> <<>>,
   text |-> <<"k", "r", " ", "3", " ", "9", "9", "7", " ", "1", " ", "5", "0", "0", " ", "k", "r">>]

\* a bot-detection page without an acceptable price
ListingEmpty ==
  [title |-> "robot",
   sel |-> 
     (".amount" :> <<<<"2", "0", "0", " ", "0", "0", "0", " ", "k", "r">>>>),
   text |-> <<"2", "0", "0", " ", "0", "0", "0", " ", "k", "r">>]

\* a title element without a string: title.lower() raises AttributeError
ListingNoTitleString ==
  [title |-> "nostring",
   sel |-> 
     (".item-price" :> <<<<"9", "9", "9", " ", "k", "r">>>>),
   text |-> <<"9", "9", "9", " ", "k", "r">>]

\* what a product page may hold and what a listing search may hold
ProductPages == <<PagePrimary, PageFallback, PageTextOnly, PageNoPrice,
                  PageZero, PageTooBig>>

ListingPages == <<ListingFour, ListingCheap, ListingText, ListingEmpty,
                  ListingNoTitleString>>

\* a fetch returns one of these; a page is referred to by its position
Pages == ProductPages \o ListingPages

\* the pages served for a product page and for a listing search
PrisjaktPages == 1..Len(ProductPages)

BlocketPages == (Len(ProductPages) + 1)..Len(Pages)

NoPage == 0

(***************************************************************************)
(* Target definitions (models.py) and products.json contents               *)
(***************************************************************************)
valid_platforms == {"prisjakt", "blocket"}

DefaultSelector == ".price-large"

Entry(name, platform, selector, target, lo, hi) ==
  [name |-> name, platform |-> platform, price_selector |-> selector,
   target_price |-> target, min_price |-> lo, max_price |-> hi]

\* Product.name_must_not_be_empty
name_must_not_be_empty(v) == Strip(v) # <<>>

\* Product.validate_platform
validate_platform(v) == v \in valid_platforms

\* Product(**product_data) raises a validation error
ProductRaises(product_data) ==
  ~name_must_not_be_empty(product_data.name)
    \/ ~validate_platform(product_data.platform)

\* Product(**product_data): the validated target (the name is stripped)
Product(product_data) == [product_data EXCEPT !.name = Strip(product_data.name)]

\* the loop of load_products; ok is FALSE once a constructor has raised
RECURSIVE LoadLoop(_)
LoadLoop(products_data) ==
  IF products_data = <<>> THEN [ok |-> TRUE, products |-> <<>>]
  ELSE IF ProductRaises(Head(products_data))
    THEN [ok |-> FALSE, products |-> <<>>]
    ELSE LET rest == LoadLoop(Tail(products_data))
         IN  [ok |-> rest.ok,
              products |-> <<Product(Head(products_data))>> \o rest.products]

\* load_products: any exception yields the empty list
load_products(products_data) ==
  LET loaded == LoadLoop(products_data)
  IN  IF loaded.ok THEN loaded.products ELSE <<>>

NameA == <<"A">>
NameB == <<"B">>
NameC == <<" ", "C">>

EntryA == Entry(NameA, "prisjakt", DefaultSelector, NoValue, NoValue, NoValue)
EntryB == Entry(NameB, "blocket", DefaultSelector, Num(1000), Num(900), Num(2000))
EntryC == Entry(NameC, "prisjakt", TextSearch, Num(8000), NoValue, NoValue)
EntryD == Entry(NameA, "blocket", DefaultSelector, NoValue, Num(900), NoValue)
EntryE == Entry(NameC, "blocket", DefaultSelector, Num(500), NoValue, NoValue)
EntryBadPlatform == Entry(NameB, "tradera", DefaultSelector, NoValue, NoValue, NoValue)
EntryEmptyName == Entry(<<" ">>, "prisjakt", DefaultSelector, NoValue, NoValue, NoValue)

\* the products.json files of the model
Configs ==
  { <<EntryA, EntryB, EntryC>>,
    <<EntryD, EntryE>>,
    <<EntryA, EntryBadPlatform, EntryB>>,
    <<EntryEmptyName, EntryA>>,
    <<>> }

\* A client of UnifiedScraper other than scrape_and_notify hands it Product
\* objects directly; pydantic does not validate an assignment to
\* product.platform, so the site identifier of such an object is arbitrary.
ClientRuns ==
  { <<Product(EntryA), [Product(EntryA) EXCEPT !.platform = "tradera"],
      Product(EntryB)>>,
    <<[Product(EntryB) EXCEPT !.platform = "tradera"], Product(EntryA),
      Product(EntryC)>>,
    <<Product(EntryB), Product(EntryA), Product(EntryB)>> }

Names == {NameA, NameB, Strip(NameC)}

\* the values of price_selector among these targets
ConfiguredSelectors == {DefaultSelector, TextSearch}

\* The extraction reads nothing but the page and the selector, so the
\* model evaluates it once per page of the catalogue:
\* the single-item cascade on each product page, per configured selector
CascadeOn ==
  [k \in PrisjaktPages |->
     [sel \in ConfiguredSelectors |-> Prisjakt_cascade(Pages[k], sel)]]

\* one stage of the cascade on each product page
StageValueOn ==
  [k \in PrisjaktPages |->
     [sel \in ConfiguredSelectors \cup Range(alternative_selectors) |->
        StageValue(Pages[k], sel)]]

\* _extract_search_result_prices on each listing page
PricesOn ==
  [k \in BlocketPages |-> Blocket_extract_search_result_prices(Pages[k])]

\* price_history.json as earlier runs of the program left it
StoredRecord(name, price) ==
  [product_name |-> name, current_price |-> Num(price),
   previous_price |-> NoValue, price_dropped |-> FALSE,
   target_price_reached |-> FALSE]

InitialHistories ==
  { [n \in Names |-> <<>>],
    [n \in Names |-> IF n = NameA THEN <<StoredRecord(NameA, 1299)>>
                     ELSE IF n = NameB THEN <<StoredRecord(NameB, 1500)>>
                     ELSE <<>>] }

(***************************************************************************)
(* Bounds                                                                  *)
(***************************************************************************)
MaxRetries == 3
MaxCycles == 1
MaxClientRuns == 1

HistoryCap == 100

(***************************************************************************)
(* State                                                                   *)
(***************************************************************************)
VARIABLES
  pc,              \* "idle", "loop", "fetch", "sleep" or "finish"
  mode,            \* what main() runs: "cycle" (scrape_and_notify, once or
                   \* scheduled) or "client" (a direct user of UnifiedScraper,
                   \* as test_scraper is)
  cycles,          \* cycles started
  clientRuns,      \* client runs started
  config,          \* the products.json content read by this cycle
  products,        \* the targets of this run
  idx,             \* position of the loop over products (1-based)
  max_retries,     \* UnifiedScraper.max_retries
  scrapers,        \* UnifiedScraper.scrapers: site identifier -> extractor
  created,         \* extractors constructed in this run, in order
  attempt,         \* loop variable of scrape_product_price
  fetches,         \* session.get calls of the current scrape_product_price
  sleeps,          \* time.sleep(retry_delay) calls of the current call
  outcome,         \* what the last attempt of the current call ended in
  soup,            \* the page of the last successful fetch (NoPage: none)
  tried,           \* the selectors the cascade attempted on that page
  result,          \* return value of the current scrape_product_price
  previous_record, \* main.py: storage.get_latest_price(product.name)
  storage,         \* price_history.json: name -> list of records
  sent,            \* send_notification calls of this cycle
  log,             \* log messages of the latest step of the current call
  scraped,         \* names handed to scrape_product_price in this run
  called,          \* the extraction function applied on its own ("none": none)
  argument,        \* the argument it was applied to
  returned         \* what it returned

vars == <<pc, mode, cycles, clientRuns, config, products, idx, max_retries,
          scrapers, created, attempt, fetches, sleeps, outcome, soup, tried,
          result, previous_record, storage, sent, log, scraped,
          called, argument, returned>>

callVars == <<attempt, fetches, sleeps, outcome, soup, tried, result, log>>

SiteIds == valid_platforms \cup {"tradera"}

NoScraper == [kind |-> "none", id |-> 0]

\* the program before its first run
Started ==
  /\ pc = "idle"
  /\ mode \in {"cycle", "client"}
  /\ cycles = 0
  /\ clientRuns = 0
  /\ config = <<>>
  /\ products = <<>>
  /\ idx = 1
  /\ max_retries \in 0..MaxRetries
  /\ scrapers = [s \in SiteIds |-> NoScraper]
  /\ created = <<>>
  /\ attempt = 0
  /\ fetches = 0
  /\ sleeps = 0
  /\ outcome = "none"
  /\ soup = NoPage
  /\ tried = <<>>
  /\ result = NoRecord
  /\ previous_record = NoRecord
  /\ storage \in InitialHistories
  /\ sent = <<>>
  /\ log = <<>>
  /\ scraped = <<>>

Init ==
  /\ Started
  /\ called = "none"
  /\ argument = <<>>
  /\ returned = NoValue

(***************************************************************************)
(* Storage (storage.py) and the notification decision (main.py)            *)
(***************************************************************************)
\* data[product_name][-100:]
LastN(records, n) ==
  IF Len(records) <= n THEN records
  ELSE SubSeq(records, Len(records) - n + 1, Len(records))

\* PriceStorage.save_price_record
save_price_record(data, price_record) ==
  [data EXCEPT ![price_record.product_name] =
     LastN(Append(@, price_record), HistoryCap)]

\* PriceStorage.get_latest_price
get_latest_price(data, product_name) ==
  IF data[product_name] = <<>> THEN NoRecord
  ELSE data[product_name][Len(data[product_name])]

\* the decision without its "if previous_record is None: return True"
should_notify_on_change_only(current_record, previous) ==
  IF current_record.target_price_reached
    THEN [notify |-> TRUE, record |-> current_record]
  ELSE IF IsRecord(previous)
            /\ Lt(current_record.current_price, previous.current_price)
    THEN [notify |-> TRUE,
          record |-> [current_record EXCEPT
                        !.price_dropped = TRUE,
                        !.previous_price = previous.current_price]]
  ELSE [notify |-> FALSE, record |-> current_record]

\* the decision with "<=" in the comparison with the previous price
should_notify_unless_higher(current_record, previous) ==
  IF current_record.target_price_reached
       \/ ~IsRecord(previous)
       \/ Le(current_record.current_price, previous.current_price)
    THEN [notify |-> TRUE, record |-> current_record]
    ELSE [notify |-> FALSE, record |-> current_record]

\* should_notify: the decision and the record as the call leaves it
should_notify(current_record, previous) ==
  IF current_record.target_price_reached
    THEN [notify |-> TRUE, record |-> current_record]
  ELSE IF IsRecord(previous)
            /\ Lt(current_record.current_price, previous.current_price)
    THEN [notify |-> TRUE,
          record |-> [current_record EXCEPT
                        !.price_dropped = TRUE,
                        !.previous_price = previous.current_price]]
  ELSE IF ~IsRecord(previous)
    THEN [notify |-> TRUE, record |-> current_record]
  ELSE [notify |-> FALSE, record |-> current_record]

(***************************************************************************)
(* Decisions of the scrapers and the dispatcher                            *)
(***************************************************************************)
\* a factory whose else branch falls back to a scraper instead of raising
CreateWithDefault(product) ==
  IF product.platform = "blocket" THEN "BlocketScraper" ELSE "PrisjaktScraper"

\* ScraperFactory.create_scraper: the class constructed, or "ValueError"
ScraperFactory_create_scraper(product) ==
  IF product.platform = "prisjakt" THEN "PrisjaktScraper"
  ELSE IF product.platform = "blocket" THEN "BlocketScraper"
  ELSE "ValueError"

\* a dispatcher that never finds its cache entry
NeverCached(cache, platform) == TRUE

\* UnifiedScraper.scrape_product_price: product.platform not in self.scrapers
NotCached(cache, platform) == cache[platform].kind = "none"

\* the guard off by one: a sleep also after the last attempt
SleepsAfterEveryAttempt(att, retries) == att < retries

\* both scrapers: if attempt < self.max_retries - 1: time.sleep(...)
SleepsBeforeRetry(att, retries) == att < retries - 1

\* both scrapers: for attempt in range(self.max_retries) has a next iteration
LoopContinues(att, retries) == att + 1 < retries

\* the message after the loop: PrisjaktScraper logs "Failed to scrape ...
\* after N attempts", BlocketScraper logs nothing
AfterLoopMessages(kind) ==
  IF kind = "PrisjaktScraper" THEN <<"failed_after_retries">> ELSE <<>>

\* PrisjaktScraper.scrape_product_price: only the handler of
\* requests.RequestException stays in the loop; the extraction branches and
\* the handler of Exception return
PrisjaktStaysInLoop(what) == what = "transport"

\* BlocketScraper.scrape_product_price: only the branch that built a record
\* returns; every other branch and both handlers fall to the next iteration
BlocketStaysInLoop(what) == what # "found"

\* one message for both kinds of miss
Blocket_same_message(prices) == "no_prices"

\* BlocketScraper.scrape_product_price: the message of an attempt without a
\* price in range ("... but none in specified price range" or
\* "Could not find any prices ...")
Blocket_miss_message(prices) ==
  IF prices # <<>> THEN "none_in_range" ELSE "no_prices"

\* max() where the code takes min()
Blocket_highest_price(filtered_prices) == MaxOf(Range(filtered_prices))

\* a scraper whose choice depends on the calls made before this one
Blocket_price_after_first_call(filtered_prices) ==
  IF Len(scraped) > 1 THEN MaxOf(Range(filtered_prices))
                      ELSE MinOf(Range(filtered_prices))

\* BlocketScraper.scrape_product_price: best_price = min(filtered_prices)
Blocket_best_price(filtered_prices) == MinOf(Range(filtered_prices))

\* "return" where the code has "continue": a failed target ends the loop
NextTargetOrStop(i, current_record) ==
  IF IsRecord(current_record) THEN i + 1 ELSE Len(products) + 1

\* scrape_and_notify: the loop moves to the next product, also after
\* "continue"
NextTarget(i, current_record) == i + 1

(***************************************************************************)
(* Actions                                                                 *)
(***************************************************************************)
CurrentProduct == products[idx]

CurrentScraper == scrapers[CurrentProduct.platform]

\* UnifiedScraper.__init__ followed by the first steps of a run
OpenRun(targets) ==
  /\ products' = targets
  /\ idx' = 1
  /\ scrapers' = [s \in SiteIds |-> NoScraper]
  /\ created' = <<>>
  /\ attempt' = 0 /\ fetches' = 0 /\ sleeps' = 0
  /\ outcome' = "none" /\ soup' = NoPage /\ tried' = <<>>
  /\ result' = NoRecord /\ previous_record' = NoRecord
  /\ sent' = <<>> /\ log' = <<>> /\ scraped' = <<>>

\* scrape_and_notify up to the loop: load_products, "No products to
\* monitor", construction of the scraper
StartCycle ==
  /\ pc = "idle" /\ mode = "cycle"
  /\ cycles < MaxCycles
  /\ \E cfg \in Configs :
       /\ config' = cfg
       /\ OpenRun(load_products(cfg))
       /\ pc' = IF load_products(cfg) = <<>> THEN "idle" ELSE "loop"
  /\ cycles' = cycles + 1
  /\ UNCHANGED <<called, argument, returned, mode, clientRuns, max_retries, storage>>

\* another caller constructs a UnifiedScraper (as test_scraper does)
ClientOpen ==
  /\ pc = "idle" /\ mode = "client"
  /\ clientRuns < MaxClientRuns
  /\ \E targets \in ClientRuns : OpenRun(targets)
  /\ pc' = "loop"
  /\ clientRuns' = clientRuns + 1
  /\ UNCHANGED <<called, argument, returned, mode, cycles, config, max_retries, storage>>

\* UnifiedScraper.scrape_product_price up to the first fetch: the cache
\* lookup, ScraperFactory.create_scraper, its except clause, and the entry
\* into the scraper's loop over range(max_retries)
Dispatch(product) ==
  LET kind == ScraperFactory_create_scraper(product)
      miss == NotCached(scrapers, product.platform)
      used == IF miss THEN kind ELSE scrapers[product.platform].kind
  IN  /\ scraped' = Append(scraped, product.name)
      /\ attempt' = 0 /\ fetches' = 0 /\ sleeps' = 0
      /\ soup' = NoPage /\ tried' = <<>> /\ result' = NoRecord
      /\ IF miss /\ kind = "ValueError"
           THEN /\ UNCHANGED <<scrapers, created>>
                /\ outcome' = "unsupported"
                /\ log' = <<"error_scraping">>
                /\ pc' = "finish"
           ELSE /\ IF miss
                     THEN /\ scrapers' = [scrapers EXCEPT ![product.platform] =
                                            [kind |-> kind, id |-> Len(created) + 1]]
                          /\ created' = Append(created,
                                          [platform |-> product.platform,
                                           id |-> Len(created) + 1])
                     ELSE UNCHANGED <<scrapers, created>>
                /\ outcome' = "none"
                /\ IF max_retries > 0
                     THEN pc' = "fetch" /\ log' = <<>>
                     ELSE pc' = "finish" /\ log' = AfterLoopMessages(used)

\* scrape_and_notify: the head of one loop iteration
ProcessTarget ==
  /\ pc = "loop" /\ mode = "cycle"
  /\ idx <= Len(products)
  /\ previous_record' = get_latest_price(storage, CurrentProduct.name)
  /\ Dispatch(CurrentProduct)
  /\ UNCHANGED <<called, argument, returned, mode, cycles, clientRuns, config, products, idx, max_retries,
                 storage, sent>>

\* a client calls UnifiedScraper.scrape_product_price
ClientScrape ==
  /\ pc = "loop" /\ mode = "client"
  /\ idx <= Len(products)
  /\ Dispatch(CurrentProduct)
  /\ UNCHANGED <<called, argument, returned, mode, cycles, clientRuns, config, products, idx, max_retries,
                 previous_record, storage, sent>>

\* what session.get and the parsing of the response may do: raise a
\* requests.RequestException, raise another exception, or yield a page
Responses(pages) ==
  {[kind |-> "transport", page |-> NoPage], [kind |-> "unexpected", page |-> NoPage]}
    \cup {[kind |-> "page", page |-> k] : k \in pages}

\* where an attempt that built no record goes next: a branch that stays in
\* the loop sleeps if the guard allows and then takes the next iteration, if
\* there is one; otherwise the call returns None
AfterFailedAttempt(stays, messages) ==
  IF stays /\ SleepsBeforeRetry(attempt, max_retries)
    THEN pc' = "sleep" /\ attempt' = attempt /\ log' = messages
  ELSE IF stays /\ LoopContinues(attempt, max_retries)
    THEN pc' = "fetch" /\ attempt' = attempt + 1 /\ log' = messages
  ELSE /\ pc' = "finish"
       /\ attempt' = attempt
       /\ log' = IF stays THEN messages \o AfterLoopMessages(CurrentScraper.kind)
                          ELSE messages

\* an attempt that raised: the except clauses
AttemptRaised(what, stays, messages) ==
  /\ outcome' = what
  /\ result' = NoRecord
  /\ UNCHANGED <<soup, tried>>
  /\ AfterFailedAttempt(stays, messages)

\* PrisjaktScraper.scrape_product_price: the page was fetched and parsed
PrisjaktOnPage(k, found) ==
  /\ soup' = k
  /\ tried' = found.tried
  /\ IF IsValue(found.price)
       THEN /\ outcome' = "found"
            /\ result' = PriceRecord(CurrentProduct, found.price)
            /\ pc' = "finish"
            /\ attempt' = attempt
            /\ log' = IF Len(found.tried) > 1
                        THEN <<"found_alternative", "scraped">>
                        ELSE <<"scraped">>
       ELSE /\ outcome' = "no_price"
            /\ result' = NoRecord
            /\ AfterFailedAttempt(PrisjaktStaysInLoop("no_price"),
                                  <<"could_not_find_price">>)

\* one iteration of the loop of PrisjaktScraper.scrape_product_price
PrisjaktAttempt ==
  /\ pc = "fetch"
  /\ CurrentScraper.kind = "PrisjaktScraper"
  /\ fetches' = fetches + 1
  /\ \E response \in Responses(PrisjaktPages) :
       IF response.kind = "page"
         THEN PrisjaktOnPage(response.page,
                             CascadeOn[response.page][CurrentProduct.price_selector])
         ELSE AttemptRaised(response.kind, PrisjaktStaysInLoop(response.kind),
                            IF response.kind = "transport"
                              THEN <<"request_failed">> ELSE <<"unexpected_error">>)
  /\ UNCHANGED <<called, argument, returned, mode, cycles, clientRuns, config, products, idx, max_retries,
                 scrapers, created, sleeps, previous_record, storage, sent,
                 scraped>>

\* BlocketScraper.scrape_product_price: if prices: ... else: ...
BlocketOnPrices(prices, filtered, warned) ==
  IF filtered # <<>>
    THEN /\ outcome' = "found"
         /\ result' = PriceRecord(CurrentProduct, Blocket_best_price(filtered))
         /\ pc' = "finish"
         /\ attempt' = attempt
         /\ log' = Append(warned, "found_in_range")
    ELSE /\ outcome' = Blocket_miss_message(prices)
         /\ result' = NoRecord
         /\ AfterFailedAttempt(BlocketStaysInLoop(Blocket_miss_message(prices)),
                               Append(warned, Blocket_miss_message(prices)))

\* BlocketScraper.scrape_product_price: the page was fetched and parsed;
\* title.lower() raises AttributeError when the title has no string
BlocketOnPage(k, prices) ==
  /\ soup' = k
  /\ tried' = <<>>
  /\ IF Pages[k].title = "nostring"
       THEN /\ outcome' = "unexpected"
            /\ result' = NoRecord
            /\ AfterFailedAttempt(BlocketStaysInLoop("unexpected"),
                                  <<"unexpected_error">>)
       ELSE BlocketOnPrices(prices,
                            Blocket_filtered_prices(prices, CurrentProduct),
                            IF Pages[k].title = "robot"
                              THEN <<"bot_detection">> ELSE <<>>)

\* one iteration of the loop of BlocketScraper.scrape_product_price
BlocketAttempt ==
  /\ pc = "fetch"
  /\ CurrentScraper.kind = "BlocketScraper"
  /\ fetches' = fetches + 1
  /\ \E response \in Responses(BlocketPages) :
       IF response.kind = "page"
         THEN BlocketOnPage(response.page, PricesOn[response.page])
         ELSE AttemptRaised(response.kind, BlocketStaysInLoop(response.kind),
                            IF response.kind = "transport"
                              THEN <<"request_failed">> ELSE <<"unexpected_error">>)
  /\ UNCHANGED <<called, argument, returned, mode, cycles, clientRuns, config, products, idx, max_retries,
                 scrapers, created, sleeps, previous_record, storage, sent,
                 scraped>>

\* time.sleep(self.retry_delay), then the next iteration or the end of the
\* loop
Sleep ==
  /\ pc = "sleep"
  /\ sleeps' = sleeps + 1
  /\ IF LoopContinues(attempt, max_retries)
       THEN pc' = "fetch" /\ attempt' = attempt + 1 /\ log' = log
       ELSE /\ pc' = "finish"
            /\ attempt' = attempt
            /\ log' = log \o AfterLoopMessages(CurrentScraper.kind)
  /\ UNCHANGED <<called, argument, returned, mode, cycles, clientRuns, config, products, idx, max_retries,
                 scrapers, created, fetches, outcome, soup, tried, result,
                 previous_record, storage, sent, scraped>>

\* the loop body with save_price_record moved after should_notify
FinishTargetSavingLast ==
  /\ pc = "finish" /\ mode = "cycle"
  /\ IF ~IsRecord(result)
       THEN UNCHANGED <<storage, sent>>
       ELSE LET decision == should_notify(result, previous_record)
            IN  /\ storage' = save_price_record(storage, decision.record)
                /\ sent' = IF decision.notify
                             THEN Append(sent, decision.record) ELSE sent
  /\ idx' = NextTarget(idx, result)
  /\ pc' = "loop"
  /\ UNCHANGED <<called, argument, returned, mode, cycles, clientRuns, config, products, max_retries,
                 scrapers, created, attempt, fetches, sleeps, outcome, soup,
                 tried, result, previous_record, log, scraped>>

\* scrape_and_notify: the rest of the loop iteration, from the test of
\* current_record to the end of the body
FinishTarget ==
  /\ pc = "finish" /\ mode = "cycle"
  /\ IF ~IsRecord(result)
       THEN UNCHANGED <<storage, sent>>
       ELSE LET decision == should_notify(result, previous_record)
            IN  /\ storage' = save_price_record(storage, result)
                /\ sent' = IF decision.notify
                             THEN Append(sent, decision.record) ELSE sent
  /\ idx' = NextTarget(idx, result)
  /\ pc' = "loop"
  /\ UNCHANGED <<called, argument, returned, mode, cycles, clientRuns, config, products, max_retries,
                 scrapers, created, attempt, fetches, sleeps, outcome, soup,
                 tried, result, previous_record, log, scraped>>

\* the client receives the return value
ClientReturn ==
  /\ pc = "finish" /\ mode = "client"
  /\ idx' = idx + 1
  /\ pc' = "loop"
  /\ UNCHANGED <<called, argument, returned, mode, cycles, clientRuns, config, products, max_retries,
                 scrapers, created, attempt, fetches, sleeps, outcome, soup,
                 tried, result, previous_record, storage, sent, log, scraped>>

\* UnifiedScraper.test_selectors: the cache part
TestSelectors ==
  /\ pc = "loop" /\ mode = "client"
  /\ IF NotCached(scrapers, "prisjakt")
       THEN /\ scrapers' = [scrapers EXCEPT !["prisjakt"] =
                              [kind |-> "PrisjaktScraper", id |-> Len(created) + 1]]
            /\ created' = Append(created, [platform |-> "prisjakt",
                                           id |-> Len(created) + 1])
       ELSE UNCHANGED <<scrapers, created>>
  /\ UNCHANGED <<called, argument, returned, pc, mode, cycles, clientRuns, config, products, idx,
                 max_retries, attempt, fetches, sleeps, outcome, soup, tried,
                 result, previous_record, storage, sent, log, scraped>>

\* UnifiedScraper.close
Close ==
  /\ scrapers' = [s \in SiteIds |-> NoScraper]
  /\ pc' = "idle"
  /\ UNCHANGED <<called, argument, returned, mode, cycles, clientRuns, config, products, idx, max_retries,
                 created, attempt, fetches, sleeps, outcome, soup, tried,
                 result, previous_record, storage, sent, log, scraped>>

\* scrape_and_notify: after the loop
EndCycle ==
  /\ pc = "loop" /\ mode = "cycle"
  /\ idx > Len(products)
  /\ Close

\* the client closes the scraper
ClientClose ==
  /\ pc = "loop" /\ mode = "client"
  /\ Close

Next ==
  \/ StartCycle
  \/ ClientOpen
  \/ ProcessTarget
  \/ ClientScrape
  \/ PrisjaktAttempt
  \/ BlocketAttempt
  \/ Sleep
  \/ FinishTarget
  \/ ClientReturn
  \/ TestSelectors
  \/ EndCycle
  \/ ClientClose

Spec == Init /\ [][Next]_vars

(***************************************************************************)
(* The number normalizers and the text-pattern extractors applied on their *)
(* own to a fragment of text                                               *)
(***************************************************************************)
MaxFragment == 5

\* the characters of the fragments: digits, the separators, the two kinds
\* of whitespace, the sign and a letter
Alphabet == {"0", "5", ",", ".", " ", "nbsp", "-", "a"}

\* the sequences over S of length 0..n
SeqsUpTo(S, n) == UNION {[1..k -> S] : k \in 0..n}

\* longer fragments: price texts as the sites print them
PrintedPrices ==
  { <<"a", "b", "c">>,
    <<"1", ",", "2", "3", "4", ".", "5", "6">>,
    <<"1", ".", "2", "3", "4", ",", "5", "6">>,
    <<"1", "2", ",", "9", "9">>,
    <<"3", " ", "9", "9", "7", " ", "k", "r">>,
    <<"3", "nbsp", "9", "9", "7", " ", "k", "r">>,
    <<"1", " ", "2", "3", "4", ",", "5", "6">>,
    <<"1", ".", "2", "3", "4", ".", "5", "6", "7", ",", "8", "9">>,
    <<"1", ",", "2", "9", "9", ".", "0", "0", ",">>,
    <<"2", "0", "0", "0", "0", "0">>,
    <<"2", "0", "0", "0", "0", "0", "0", "0", " ", "k", "r">> }

Fragments == SeqsUpTo(Alphabet, MaxFragment) \cup PrintedPrices

\* the program variables, which the functions neither read nor write
programVars ==
  <<pc, mode, cycles, clientRuns, config, products, idx, max_retries,
    scrapers, created, attempt, fetches, sleeps, outcome, soup, tried,
    result, previous_record, storage, sent, log, scraped>>

\* no run is under way and nothing is stored
Quiet ==
  /\ Started
  /\ mode = "cycle"
  /\ max_retries = 0
  /\ storage = [n \in Names |-> <<>>]

NormalizerInit ==
  /\ Quiet
  /\ called = "none"
  /\ argument \in Fragments
  /\ returned = NoValue

\* PrisjaktScraper._parse_price_text(price_text)
CallPrisjaktParse ==
  /\ called = "none"
  /\ called' = "PrisjaktScraper._parse_price_text"
  /\ returned' = Prisjakt_parse_price_text(argument)
  /\ UNCHANGED <<argument, programVars>>

\* BlocketScraper._parse_price_text(price_text)
CallBlocketParse ==
  /\ called = "none"
  /\ called' = "BlocketScraper._parse_price_text"
  /\ returned' = Blocket_parse_price_text(argument)
  /\ UNCHANGED <<argument, programVars>>

NormalizerNext == CallPrisjaktParse \/ CallBlocketParse

NormalizerSpec == NormalizerInit /\ [][NormalizerNext]_vars

(***************************************************************************)
(* The extractors (_extract_price_from_text, _extract_price,               *)
(* _extract_search_result_prices) applied on their own to a parsed page    *)
(***************************************************************************)
MaxElements == 3

\* the get_text(strip=True) of the elements a page is made of
ElementTexts ==
  { <<>>,
    <<"P", "r", "i", "s">>,
    <<"5", "0", " ", "k", "r">>,
    <<"1", " ", "5", "0", "0", " ", "k", "r">>,
    <<"1", ",", "2", "9", "9", " ", "k", "r">>,
    <<"3", "nbsp", "9", "9", "7", " ", "k", "r">> }

\* soup.get_text() of a page whose elements read texts
RECURSIVE PageText(_)
PageText(texts) ==
  IF texts = <<>> THEN <<>>
  ELSE IF Len(texts) = 1 THEN Head(texts)
  ELSE Head(texts) \o <<" ">> \o PageText(Tail(texts))

\* the page whose first a elements have class item-price, the next b - a
\* class price, and the remaining ones no class
Soup(texts, a, b) ==
  [title |-> "text",
   sel |-> (".item-price" :> SubSeq(texts, 1, a)) @@
           (".price" :> SubSeq(texts, a + 1, b)) @@
           ("[class*=\"price\"]" :> SubSeq(texts, 1, b)),
   text |-> PageText(texts)]

Soups ==
  { Soup(x[1], x[2], x[3]) :
      x \in { y \in SeqsUpTo(ElementTexts, MaxElements)
                      \X (0..MaxElements) \X (0..MaxElements) :
                 y[2] <= y[3] /\ y[3] <= Len(y[1]) } }

ExtractorInit ==
  /\ Quiet
  /\ called = "none"
  /\ argument \in Soups
  /\ returned = NoValue

\* PrisjaktScraper._extract_price_from_text(soup)
CallExtractPriceFromText ==
  /\ called = "none"
  /\ called' = "PrisjaktScraper._extract_price_from_text"
  /\ returned' = Prisjakt_extract_price_from_text(argument.text)
  /\ UNCHANGED <<argument, programVars>>

\* PrisjaktScraper._extract_price(soup, ".price")
CallExtractPrice ==
  /\ called = "none"
  /\ called' = "PrisjaktScraper._extract_price"
  /\ returned' = Prisjakt_extract_price(argument, ".price")
  /\ UNCHANGED <<argument, programVars>>

\* BlocketScraper._extract_search_result_prices(soup, product)
CallExtractSearchResultPrices ==
  /\ called = "none"
  /\ called' = "BlocketScraper._extract_search_result_prices"
  /\ returned' = Blocket_extract_search_result_prices(argument)
  /\ UNCHANGED <<argument, programVars>>

ExtractorNext ==
  \/ CallExtractPriceFromText
  \/ CallExtractPrice
  \/ CallExtractSearchResultPrices

ExtractorSpec == ExtractorInit /\ [][ExtractorNext]_vars

(***************************************************************************)
(* The selection among found_prices (_extract_price_from_text, lines       *)
(* 135-142) applied on its own to a list of accepted values                *)
(***************************************************************************)
MaxFound == 3

\* found_prices: accepted values (100 <= price <= 100000) in append order
FoundLists ==
  SeqsUpTo({Num(100), Num(500), Num(999), Num(1000), Num(1500), Num(100000)},
           MaxFound)

\* if found_prices: ... return max(...) ... return None
CallSelectPrice ==
  /\ called = "none"
  /\ called' = "PrisjaktScraper._extract_price_from_text: selection"
  /\ returned' = Prisjakt_select_price(argument)
  /\ UNCHANGED <<argument, programVars>>

SelectionInit ==
  /\ Quiet
  /\ called = "none"
  /\ argument \in FoundLists
  /\ returned = NoValue

SelectionSpec == SelectionInit /\ [][CallSelectPrice]_vars

(***************************************************************************)
(* Properties                                                              *)
(***************************************************************************)
PageIndex(pg) == CHOOSE k \in 1..Len(Pages) : Pages[k] = pg

\* the current call was dispatched to this scraper class
Serving(kind) ==
  /\ pc \in {"fetch", "sleep", "finish"}
  /\ CurrentScraper.kind = kind

\* the latest attempt of the current single-item call fetched a page and ran
\* the cascade on it
PrisjaktRanCascade ==
  /\ Serving("PrisjaktScraper")
  /\ pc = "finish"
  /\ outcome \in {"found", "no_price"}

\* the stages of the single-item strategy, in order
Stages(product) == <<product.price_selector>> \o alternative_selectors

\* C1: after the single-item scraper has run on a page, the selectors tried
\* are exactly the stages (configured selector, fallback selectors in list
\* order ending with the text patterns) up to and including the first one
\* that yields a value, the record carries that stage's value, and the call
\* reports no price only if every stage yields none; on the page whose only
\* price text is "Pris: 7 990 kr" a target with the default selector resolves
\* to 7990 at the text-pattern stage.
C1_CascadeOrder ==
  PrisjaktRanCascade =>
    LET stages == Stages(CurrentProduct)
        hits   == {i \in 1..Len(stages) :
                     IsValue(StageValueOn[soup][stages[i]])}
    IN  /\ IF hits = {}
             THEN outcome = "no_price" /\ ~IsRecord(result) /\ tried = stages
             ELSE LET first == CHOOSE i \in hits : \A j \in hits : i <= j
                  IN  /\ outcome = "found"
                      /\ result.current_price = StageValueOn[soup][stages[first]]
                      /\ tried = SubSeq(stages, 1, first)
        /\ (soup = PageIndex(PageTextOnly)
              /\ CurrentProduct.price_selector = DefaultSelector)
             => /\ result.current_price = Num(7990)
                /\ tried = stages

C1_Witness ==
  /\ PrisjaktRanCascade
  /\ soup = PageIndex(PageTextOnly)
  /\ CurrentProduct.price_selector = DefaultSelector
  /\ result.current_price = Num(7990)
  /\ tried[Len(tried)] = TextSearch

\* C2: a record returned by the single-item scraper carries a price between
\* 0 and 10,000,000; one returned by the listing scraper carries a price
\* between 100 and 100,000 that is not below the target's min_price and not
\* above its max_price, for whichever of the two is set.
C2_ResolvedPriceWithinBounds ==
  (pc = "finish" /\ IsRecord(result)) =>
    LET price == result.current_price
    IN  /\ Serving("PrisjaktScraper")
             => Le(Num(0), price) /\ Le(price, Num(10000000))
        /\ Serving("BlocketScraper")
             => /\ Le(Num(100), price) /\ Le(price, Num(100000))
                /\ IsValue(CurrentProduct.min_price)
                     => Le(CurrentProduct.min_price, price)
                /\ IsValue(CurrentProduct.max_price)
                     => Le(price, CurrentProduct.max_price)

C2_Witness ==
  /\ pc = "finish" /\ IsRecord(result)
  /\ Serving("BlocketScraper")
  /\ CurrentProduct.min_price = Num(900)
  /\ CurrentProduct.max_price = Num(2000)
  /\ soup = PageIndex(ListingFour)

\* the latest attempt of the current listing call collected prices from a page
BlocketCollected ==
  /\ Serving("BlocketScraper")
  /\ pc \in {"sleep", "finish"}
  /\ outcome \in {"found", "none_in_range", "no_prices"}

\* the collected prices that pass the target's filter
Passing(product, collected) ==
  {p \in collected :
     /\ IsValue(product.min_price) => Le(product.min_price, p)
     /\ IsValue(product.max_price) => Le(p, product.max_price)}

\* C3: when the listing scraper has collected prices of which at least one
\* passes the target's filter, the record carries the least passing price;
\* the listings 450, 999, 1500, 2200 under min 900 and max 2000 resolve to
\* 999, and without filter bounds the least collected price is taken.
C3_ListingMinimum ==
  BlocketCollected =>
    LET collected == Range(PricesOn[soup])
        passing   == Passing(CurrentProduct, collected)
    IN  /\ passing # {}
             => /\ IsRecord(result)
                /\ result.current_price \in passing
                /\ \A q \in passing : Le(result.current_price, q)
        /\ (soup = PageIndex(ListingFour)
              /\ CurrentProduct.min_price = Num(900)
              /\ CurrentProduct.max_price = Num(2000))
             => result.current_price = Num(999)
        /\ (~IsValue(CurrentProduct.min_price) /\ ~IsValue(CurrentProduct.max_price)
              /\ collected # {})
             => \A q \in collected : Le(result.current_price, q)

C3_Witness ==
  /\ BlocketCollected
  /\ soup = PageIndex(ListingFour)
  /\ CurrentProduct.min_price = Num(900)
  /\ CurrentProduct.max_price = Num(2000)
  /\ result.current_price = Num(999)

\* C4: for both scrapers an extraction miss ends scrape_product_price without
\* another fetch and only a transport failure is followed by another fetch,
\* so a call waits for its next attempt only after a transport failure.
C4_OnlyTransportRetried ==
  pc = "sleep" => outcome = "transport"

\* C5: a call never makes more than max_retries fetches and fetches only
\* while fewer have been made; a call whose last attempt failed at transport
\* level ends after max_retries fetches without a record; every sleep is
\* followed by another fetch, so a finished call has slept once less often
\* than it has fetched (not at all if it never fetched).
C5_BoundedAttempts ==
  Serving("PrisjaktScraper") \/ Serving("BlocketScraper") =>
    /\ fetches <= max_retries
    /\ pc = "fetch" => fetches < max_retries /\ sleeps = fetches
    /\ pc = "sleep" => fetches < max_retries /\ sleeps = fetches - 1
    /\ pc = "finish" =>
         /\ sleeps = (IF fetches = 0 THEN 0 ELSE fetches - 1)
         /\ outcome = "transport" => fetches = max_retries /\ ~IsRecord(result)

C5_Witness ==
  /\ Serving("PrisjaktScraper")
  /\ pc = "finish"
  /\ outcome = "transport"
  /\ fetches = max_retries
  /\ max_retries > 1
  /\ sleeps = max_retries - 1

\* the names of the first n targets, in list order
NamesOf(targets, n) == [i \in 1..n |-> targets[i].name]

\* C6: in a cycle the targets handed to the scraper so far are exactly the
\* loaded targets up to the loop position, each once and in list order,
\* whatever the earlier ones resulted in; when the cycle has ended, every
\* loaded target has been scraped.
C6_EveryTargetScraped ==
  mode = "cycle" =>
    /\ pc = "loop" => scraped = NamesOf(products, idx - 1)
    /\ pc \in {"fetch", "sleep", "finish"} => scraped = NamesOf(products, idx)
    /\ (pc = "idle" /\ cycles > 0) => scraped = NamesOf(products, Len(products))

\* a cycle over three targets has ended and none of them was saved
C6_Witness ==
  /\ mode = "cycle" /\ pc = "idle" /\ cycles > 0
  /\ Len(products) = 3
  /\ Len(scraped) = 3
  /\ storage \in InitialHistories
  /\ sent = <<>>

\* the entries of a products.json that are valid on their own, validated
RECURSIVE ValidTargets(_)
ValidTargets(products_data) ==
  IF products_data = <<>> THEN <<>>
  ELSE IF ProductRaises(Head(products_data))
    THEN ValidTargets(Tail(products_data))
    ELSE <<Product(Head(products_data))>> \o ValidTargets(Tail(products_data))

\* C7: the targets of a cycle are the valid entries of the products.json it
\* read: an entry with an unrecognized site identifier or an empty name is
\* left out and every other entry is loaded.
C7_OnlyInvalidTargetExcluded ==
  (mode = "cycle" /\ cycles > 0) => products = ValidTargets(config)

\* C8: in one run at most one extractor is constructed per site identifier,
\* and the cache entry of a site is that extractor.
C8_OneExtractorPerSite ==
  /\ \A i, j \in 1..Len(created) :
       created[i].platform = created[j].platform => i = j
  /\ \A site \in SiteIds :
       scrapers[site] # NoScraper
         => \E i \in 1..Len(created) :
              created[i] = [platform |-> site, id |-> scrapers[site].id]

\* the third call of a run reuses the extractor the first call created
C8_Witness ==
  /\ pc = "fetch"
  /\ idx = 3
  /\ Len(created) = 2
  /\ CurrentScraper.id = 1

\* C9: a call of UnifiedScraper.scrape_product_price for a target whose site
\* identifier is neither prisjakt nor blocket leaves the cache and the list
\* of constructed extractors as they were, returns no record with the error
\* logged, and ends without a fetch or a sleep.
C9_UnknownSiteRejected ==
  [][(/\ pc = "loop"
      /\ idx <= Len(products)
      /\ CurrentProduct.platform \notin {"prisjakt", "blocket"}
      /\ scraped' = Append(scraped, CurrentProduct.name))
       => /\ scrapers' = scrapers
          /\ created' = created
          /\ pc' = "finish"
          /\ fetches' = 0 /\ sleeps' = 0
          /\ ~IsRecord(result')
          /\ log' = <<"error_scraping">>]_vars

C9_Witness ==
  /\ pc = "finish"
  /\ CurrentProduct.platform = "tradera"
  /\ outcome = "unsupported"
  /\ Len(created) = 1
  /\ fetches = 0

\* C10: a listing attempt that collected prices of which none passes the
\* filter logs "none in specified price range" and not "could not find any
\* prices"; one that collected nothing logs the latter and not the former;
\* neither builds a record, and a call that ends in either saves nothing and
\* sends no notification.
C10_MissesReportedDistinctly ==
  [][(/\ Serving("BlocketScraper")
      /\ pc \in {"sleep", "finish"}
      /\ outcome \in {"none_in_range", "no_prices"})
       => LET collected == PricesOn[soup]
          IN  /\ collected = <<>>
                   => "no_prices" \in Range(log) /\ "none_in_range" \notin Range(log)
              /\ collected # <<>>
                   => "none_in_range" \in Range(log) /\ "no_prices" \notin Range(log)
              /\ ~IsRecord(result)
              /\ pc = "finish" => sent' = sent /\ storage' = storage]_vars

C10_Witness ==
  /\ Serving("BlocketScraper")
  /\ pc = "finish"
  /\ outcome = "none_in_range"
  /\ soup = PageIndex(ListingCheap)
  /\ CurrentProduct.min_price = Num(900)

(***************************************************************************)
(* Properties of the functions applied on their own                        *)
(***************************************************************************)
Parsed(fn) == called = fn /\ IsValue(returned)

HasDigit(text) == \E i \in 1..Len(text) : IsDigit(text[i])

\* C11: each normalizer returns either no value or a number inside its own
\* range (0..10,000,000 for the single-item scraper, 100..100,000 for the
\* listing scraper), and no value for every fragment without a digit (the
\* empty text and "abc" among them); the same fragment "50" yields 50 from
\* the single-item normalizer and no value from the listing normalizer.
C11_NoValueOnFailure ==
  /\ Parsed("PrisjaktScraper._parse_price_text")
       => /\ Le(Num(0), returned) /\ Le(returned, Num(10000000))
          /\ HasDigit(argument)
  /\ Parsed("BlocketScraper._parse_price_text")
       => /\ Le(Num(100), returned) /\ Le(returned, Num(100000))
          /\ HasDigit(argument)
  /\ (called # "none" /\ argument \in {<<>>, <<"a", "b", "c">>, <<"-">>, <<",">>})
       => returned = NoValue
  /\ (called # "none" /\ argument = <<"5", "0">>)
       => returned = (IF called = "BlocketScraper._parse_price_text"
                        THEN NoValue ELSE Num(50))

C11_Witness ==
  /\ called = "BlocketScraper._parse_price_text"
  /\ argument = <<"5", "0">>
  /\ returned = NoValue

\* C12: on the single-item path a stage whose fragment normalizes to 0 is a
\* success: the cascade stops at that stage and the record carries the price
\* 0 (the page whose span reads "0 kr" before a .price element reading "50"
\* resolves to 0 at span:contains('kr')); a record carrying 0 always comes
\* from a stage that yielded the number 0, and a call that found no value
\* returns no record rather than a zero price.
C12_ZeroIsAPrice ==
  PrisjaktRanCascade =>
    LET stages == Stages(CurrentProduct)
        last   == StageValueOn[soup][tried[Len(tried)]]
    IN  /\ (\E i \in 1..Len(stages) :
              /\ StageValueOn[soup][stages[i]] = Num(0)
              /\ \A j \in 1..(i - 1) : ~IsValue(StageValueOn[soup][stages[j]]))
             => /\ outcome = "found"
                /\ result.current_price = Num(0)
                /\ last = Num(0)
        /\ (IsRecord(result) /\ result.current_price = Num(0))
             => IsValue(last) /\ last = Num(0)
        /\ ~IsValue(last) => outcome = "no_price" /\ ~IsRecord(result)
        /\ (soup = PageIndex(PageZero)
              /\ CurrentProduct.price_selector = DefaultSelector)
             => /\ result.current_price = Num(0)
                /\ tried = <<DefaultSelector, "span:contains('kr')">>

C12_Witness ==
  /\ PrisjaktRanCascade
  /\ soup = PageIndex(PageZero)
  /\ outcome = "found"
  /\ result.current_price = Num(0)
  /\ Len(tried) = 2

\* the fragment as the normalizer called sees it after its cleaning step
Cleaned ==
  IF called = "BlocketScraper._parse_price_text"
    THEN BlocketCleaned(argument) ELSE PrisjaktCleaned(argument)

\* the range test of the normalizer called
InCallersRange(price) ==
  IF called = "BlocketScraper._parse_price_text"
    THEN Accept(price, 100, 100000) ELSE Accept(price, 0, 10000000)

NoWhitespace(text) == \A i \in 1..Len(text) : ~IsSpace(text[i])

\* the separator occurring later in the text is the decimal point
LaterIsDecimal(text) ==
  IF RFind(text, ",") > RFind(text, ".")
    THEN Replace(Remove(text, "."), ",", ".")
    ELSE Remove(text, ",")

\* C13: for a cleaned fragment holding both a comma and a dot (and no
\* whitespace), either normalizer returns what reading the later of the two
\* separators as the decimal point and dropping the other one gives; both
\* return 1234.56 for "1,234.56" and for "1.234,56".
C13_LaterSeparatorIsDecimal ==
  /\ (/\ called # "none"
      /\ NoWhitespace(Cleaned)
      /\ Contains(Cleaned, ",") /\ Contains(Cleaned, "."))
       => returned = InCallersRange(ParseFloat(LaterIsDecimal(Cleaned)))
  /\ (/\ called # "none"
      /\ argument \in {<<"1", ",", "2", "3", "4", ".", "5", "6">>,
                        <<"1", ".", "2", "3", "4", ",", "5", "6">>})
       => returned = MkFloat(FALSE, 1234, <<5, 6>>)

\* the number of characters after the last comma of the text
AfterLastComma(text) == Len(text) - RFind(text, ",") - 1

\* a comma followed by at most n characters is the decimal point, a comma
\* followed by more is a thousands separator
CommaRule(text, n) ==
  IF AfterLastComma(text) <= n THEN Replace(text, ",", ".")
                               ELSE Remove(text, ",")

OnlyComma(text) ==
  NoWhitespace(text) /\ Contains(text, ",") /\ ~Contains(text, ".")

\* C14 as stated: for a cleaned fragment with a comma and no dot, the comma
\* is the decimal point if at most 3 characters follow the last comma and a
\* thousands separator otherwise.
C14_DecimalUpToThreeAfterComma ==
  (called # "none" /\ OnlyComma(Cleaned))
    => returned = InCallersRange(ParseFloat(CommaRule(Cleaned, 3)))

\* C14: for a cleaned fragment with a comma and no dot (and no whitespace),
\* either normalizer turns every comma into a decimal point if at most 2
\* characters follow the last comma and removes every comma as a thousands
\* separator otherwise, then applies its range: "5,000" gives 5000, "500,5"
\* gives 500.5, and "12,99" gives 12.99 from the single-item normalizer and
\* no value from the listing normalizer, whose range starts at 100.
C14_DecimalUpToTwoAfterComma ==
  /\ (called # "none" /\ OnlyComma(Cleaned))
       => returned = InCallersRange(ParseFloat(CommaRule(Cleaned, 2)))
  /\ (called # "none" /\ argument = <<"5", ",", "0", "0", "0">>)
       => returned = Num(5000)
  /\ (called # "none" /\ argument = <<"5", "0", "0", ",", "5">>)
       => returned = MkFloat(FALSE, 500, <<5>>)
  /\ (called # "none" /\ argument = <<"1", "2", ",", "9", "9">>)
       => returned = (IF called = "BlocketScraper._parse_price_text"
                        THEN NoValue ELSE MkFloat(FALSE, 12, <<9, 9>>))

C14_Witness ==
  /\ called = "PrisjaktScraper._parse_price_text"
  /\ argument = <<"5", ",", "0", "0", "0">>
  /\ AfterLastComma(Cleaned) = 3
  /\ returned = Num(5000)

\* digit groups separated by whitespace, and nothing else
SpacedDigits(text) ==
  /\ HasDigit(text)
  /\ \E i \in 1..Len(text) : IsSpace(text[i])
  /\ \A i \in 1..Len(text) : IsDigit(text[i]) \/ IsSpace(text[i])

\* C15: for a cleaned fragment made of digit groups separated by whitespace,
\* either normalizer removes every whitespace character and returns the
\* number the digits spell, within its range; both return 3997 for
\* "3 997 kr".
C15_WhitespaceIsThousandsSeparator ==
  /\ (called # "none" /\ SpacedDigits(Cleaned))
       => returned = InCallersRange(ParseFloat(SelectSeq(Cleaned, IsDigit)))
  /\ (called # "none"
        /\ argument = <<"3", " ", "9", "9", "7", " ", "k", "r">>)
       => returned = Num(3997)

\* the values of the pattern matches of a page text, each match normalized
\* with the range 100..100,000
MatchValues(page_text) ==
  LET matches == AllMatches(Prisjakt_price_patterns, page_text)
  IN  { Accept(ParseFloat(PrisjaktSeparators(PrisjaktCleaned(matches[k]))),
               100, 100000) : k \in 1..Len(matches) } \ {NoValue}

AtLeast(values, n) == {v \in values : Le(Num(n), v)}

\* C16: the text-pattern extractor returns, of the pattern matches whose
\* normalized value lies in 100..100,000, the greatest of those that are at
\* least 1000 if there is one, otherwise the greatest of all of them, and no
\* value if there is none; the text "50 kr 1,299 kr", whose matches are 50,
\* 1299 and 299, gives 1299, and "50 kr" alone gives no value.
C16_TextPatternSelection ==
  called = "PrisjaktScraper._extract_price_from_text" =>
    LET accepted == MatchValues(argument.text)
    IN  /\ returned =
             (IF accepted = {} THEN NoValue
              ELSE IF AtLeast(accepted, 1000) # {}
                THEN MaxOf(AtLeast(accepted, 1000))
                ELSE MaxOf(accepted))
        /\ IsValue(returned)
             => Le(Num(100), returned) /\ Le(returned, Num(100000))
        /\ argument.text = <<"5", "0", " ", "k", "r", " ",
                             "1", ",", "2", "9", "9", " ", "k", "r">>
             => returned = Num(1299)
        /\ argument.text = <<"5", "0", " ", "k", "r">>
             => returned = NoValue

C16_Witness ==
  /\ called = "PrisjaktScraper._extract_price_from_text"
  /\ returned = Num(1500)
  /\ Num(1299) \in MatchValues(argument.text)
  /\ Num(500) \in MatchValues(argument.text)
  /\ Num(299) \in MatchValues(argument.text)

\* what extraction yields for a target on a page of the catalogue, computed
\* from the target and the page alone
ResolvedOn(product, k) ==
  IF k \in PrisjaktPages
    THEN CascadeOn[k][product.price_selector].price
    ELSE IF Passing(product, Range(PricesOn[k])) = {} THEN NoValue
    ELSE MinOf(Passing(product, Range(PricesOn[k])))

MissOn(product, k) ==
  IF k \in PrisjaktPages THEN "no_price"
  ELSE IF PricesOn[k] = <<>> THEN "no_prices" ELSE "none_in_range"

LatestStored == get_latest_price(storage, CurrentProduct.name)

\* the resolved price is below the latest stored one, or the target has a
\* target_price and the resolved price does not exceed it
DroppedOrThresholdMet ==
  \/ Lt(result.current_price, LatestStored.current_price)
  \/ /\ IsValue(CurrentProduct.target_price)
     /\ Le(result.current_price, CurrentProduct.target_price)

\* C18: when scrape_and_notify has the outcome of a target's call, then
\* (a) if the call returned a record and an observation of the target was
\* stored before, one notification carrying the resolved price is sent if the
\* price is lower than the latest stored price or the target threshold is
\* met, and none is sent otherwise (price equal or higher, threshold not
\* met); (b) if the call returned nothing, no notification is sent and
\* nothing is stored; (c) a returned record is appended to the target's
\* history.
C18_NotificationRule ==
  [][(pc = "finish" /\ mode = "cycle") =>
       /\ (IsRecord(result) /\ IsRecord(LatestStored))
            => IF DroppedOrThresholdMet
                 THEN /\ Len(sent') = Len(sent) + 1
                      /\ SubSeq(sent', 1, Len(sent)) = sent
                      /\ sent'[Len(sent')].product_name = CurrentProduct.name
                      /\ sent'[Len(sent')].current_price = result.current_price
                 ELSE sent' = sent
       /\ ~IsRecord(result) => sent' = sent /\ storage' = storage
       /\ IsRecord(result)
            => storage' = [storage EXCEPT ![CurrentProduct.name] =
                             Append(@, result)]
    ]_vars

\* the iteration just finished sent a price-drop notification: 0 after 1299
C18_Witness ==
  /\ pc = "loop" /\ mode = "cycle" /\ idx = 2
  /\ IsRecord(result) /\ IsRecord(previous_record)
  /\ ~result.target_price_reached
  /\ Lt(result.current_price, previous_record.current_price)
  /\ Len(storage[result.product_name]) = 2
  /\ Len(sent) = 1
  /\ sent[1].price_dropped
  /\ sent[1].previous_price = Num(1299)

\* the positions of the elements whose text normalizes
Normalizing(elements) ==
  {i \in 1..Len(elements) : IsValue(Prisjakt_parse_price_text(elements[i]))}

\* C19: the selector-based extractor returns the normalization of the first
\* element, in document order, whose text normalizes, and no value exactly
\* when no matched element normalizes (none matched included); elements with
\* empty text or without digits do not normalize and are passed over: the
\* elements "", "Pris", "50 kr" give 50.
C19_FirstNormalizingElement ==
  called = "PrisjaktScraper._extract_price" =>
    LET elements == Elements(argument, ".price")
        hits     == Normalizing(elements)
    IN  /\ IF hits = {}
             THEN returned = NoValue
             ELSE /\ IsValue(returned)
                  /\ \E i \in hits :
                       /\ \A j \in hits : i <= j
                       /\ returned = Prisjakt_parse_price_text(elements[i])
        /\ \A i \in 1..Len(elements) :
             (elements[i] = <<>> \/ ~HasDigit(elements[i])) => i \notin hits
        /\ elements = << <<>>, <<"P", "r", "i", "s">>,
                         <<"5", "0", " ", "k", "r">> >>
             => returned = Num(50)

C19_Witness ==
  /\ called = "PrisjaktScraper._extract_price"
  /\ Len(Elements(argument, ".price")) = 3
  /\ Elements(argument, ".price")[1] = <<>>
  /\ Elements(argument, ".price")[2] = <<"P", "r", "i", "s">>
  /\ Normalizing(Elements(argument, ".price")) = {3}
  /\ returned = Num(1500)

\* the normalized prices of all elements matched by any listing selector
FromSelectors(page) ==
  UNION { { Blocket_parse_price_text(Elements(page, price_selectors[k])[i]) :
              i \in 1..Len(Elements(page, price_selectors[k])) } :
          k \in 1..Len(price_selectors) } \ {NoValue}

\* the normalized prices of all pattern matches in the page text
FromText(page) == Range(Blocket_extract_prices_from_text(page.text))

\* C20: the listing collector returns, in ascending order and without
\* duplicates, the normalized prices of all elements matched by any of the
\* listing selectors if there is at least one such price, and the prices the
\* text patterns find in the page text if there is none; text matches are
\* left out whenever a selector produced a price.  Elements "1 500 kr" of
\* class item-price and "1,299 kr" of class price give 1299, 1500.
C20_ListingCollection ==
  called = "BlocketScraper._extract_search_result_prices" =>
    /\ Range(returned) = (IF FromSelectors(argument) # {}
                            THEN FromSelectors(argument)
                            ELSE FromText(argument))
    /\ \A i \in 1..Len(returned) : \A j \in 1..Len(returned) :
         i < j => Lt(returned[i], returned[j])
    /\ (/\ Elements(argument, ".item-price")
            = << <<"1", " ", "5", "0", "0", " ", "k", "r">> >>
        /\ Elements(argument, ".price")
            = << <<"1", ",", "2", "9", "9", " ", "k", "r">> >>)
         => returned = <<Num(1299), Num(1500)>>

\* one price from each of two selectors, each element matched a second time
\* by [class*="price"], and a third element that only the page text shows
C20_Witness ==
  /\ called = "BlocketScraper._extract_search_result_prices"
  /\ Elements(argument, ".item-price")
       = << <<"1", " ", "5", "0", "0", " ", "k", "r">> >>
  /\ Elements(argument, ".price")
       = << <<"1", ",", "2", "9", "9", " ", "k", "r">> >>
  /\ Num(997) \in FromText(argument)
  /\ returned = <<Num(1299), Num(1500)>>

\* the number of times v occurs in the list
Occurrences(list, v) == Cardinality({i \in 1..Len(list) : list[i] = v})

\* the lists holding the same values the same number of times
SameMultiset(list, other) ==
  /\ Len(list) = Len(other)
  /\ \A i \in 1..Len(list) :
       Occurrences(list, list[i]) = Occurrences(other, list[i])

\* C21: for every list of accepted values the selection "greatest of the
\* values that are at least 1000, else greatest of all" returns the plain
\* greatest value of the list (no value for the empty list), and it returns
\* the same for every reordering of the list.
C21_SelectionIsPlainMaximum ==
  called = "PrisjaktScraper._extract_price_from_text: selection" =>
    /\ returned = (IF argument = <<>> THEN NoValue
                                      ELSE MaxOf(Range(argument)))
    /\ \A other \in FoundLists :
         SameMultiset(argument, other)
           => Prisjakt_select_price(other) = returned

C21_Witness ==
  /\ called = "PrisjaktScraper._extract_price_from_text: selection"
  /\ argument = <<Num(500), Num(1500), Num(999)>>
  /\ returned = Num(1500)

\* what each normalizer returns for the fragment of the call: the value the
\* call returned for the one called, the function's value for the other
SingleItemValue ==
  IF called = "PrisjaktScraper._parse_price_text"
    THEN returned ELSE Prisjakt_parse_price_text(argument)

ListingValue ==
  IF called = "BlocketScraper._parse_price_text"
    THEN returned ELSE Blocket_parse_price_text(argument)

\* within the single-item range and outside the listing range
OnlyInWiderRange(price) ==
  \/ Le(Num(0), price) /\ Lt(price, Num(100))
  \/ Lt(Num(100000), price) /\ Le(price, Num(10000000))

\* C22: for a fragment over digits, comma, dot, space, hyphen and letters,
\* the two normalizers return equal values whenever both return one, the
\* listing normalizer never returns a value where the single-item one
\* returns none, and where only the single-item normalizer returns a value
\* that value lies in 0..100 (100 excluded) or above 100,000.
C22_NormalizersDifferOnlyInRange ==
  (called # "none" /\ \A i \in 1..Len(argument) : argument[i] # "nbsp") =>
    /\ (IsValue(SingleItemValue) /\ IsValue(ListingValue))
         => SingleItemValue = ListingValue
    /\ IsValue(ListingValue) => IsValue(SingleItemValue)
    /\ (IsValue(SingleItemValue) /\ ~IsValue(ListingValue))
         => OnlyInWiderRange(SingleItemValue)

\* C23: every record of the price history has price_dropped false and no
\* previous_price, and every notification sent for a price drop carries
\* both markers while the record stored for the same observation, the
\* latest of that target, carries neither.
C23_HistoryHasNoDropMarkers ==
  /\ \A n \in Names : \A i \in 1..Len(storage[n]) :
       /\ ~storage[n][i].price_dropped
       /\ storage[n][i].previous_price = NoValue
  /\ \A k \in 1..Len(sent) :
       sent[k].price_dropped
         => /\ IsValue(sent[k].previous_price)
            /\ \E i \in 1..Len(storage[sent[k].product_name]) :
                 storage[sent[k].product_name][i]
                   = [sent[k] EXCEPT !.price_dropped = FALSE,
                                     !.previous_price = NoValue]

\* a price-drop notification was sent and the observation is in the history
C23_Witness ==
  /\ mode = "cycle"
  /\ \E k \in 1..Len(sent) :
       /\ sent[k].price_dropped
       /\ sent[k].previous_price = Num(1299)
       /\ storage[sent[k].product_name]
            = <<StoredRecord(sent[k].product_name, 1299),
                [sent[k] EXCEPT !.price_dropped = FALSE,
                                !.previous_price = NoValue]>>

\* C24: when scrape_and_notify has a record for a target of which nothing
\* is stored, it sends a notification carrying that record, whether or not
\* the target has a target_price and whether or not it is met; and when it
\* has a record and sends nothing, an observation of the target was stored
\* before, the target threshold is not met and the price is not lower than
\* the latest stored one.
C24_FirstObservationNotifies ==
  [][(pc = "finish" /\ mode = "cycle" /\ IsRecord(result)) =>
       /\ ~IsRecord(LatestStored) => sent' = Append(sent, result)
       /\ sent' = sent
            => /\ IsRecord(LatestStored)
               /\ ~DroppedOrThresholdMet
    ]_vars

\* the first observation of a target without target_price was notified
C24_Witness ==
  /\ pc = "loop" /\ mode = "cycle"
  /\ IsRecord(result) /\ ~IsRecord(previous_record)
  /\ ~result.target_price_reached
  /\ \E i \in 1..Len(products) :
       products[i].name = result.product_name
         /\ ~IsValue(products[i].target_price)
  /\ storage[result.product_name] = <<result>>
  /\ sent # <<>> /\ sent[Len(sent)] = result

====
